---- MODULE Spec2Model ----
(***************************************************************************)
(* PlasFlowSolver: the multi-case orchestrator of main.py, its Newton      *)
(* loop, the boundary-layer heat-flux evaluation with its warm-start       *)
(* files, the dynamic Jacobian step and the under-relaxation.              *)
(*                                                                         *)
(* Numbers.  Temperatures, velocities and pressures are fixed-point        *)
(* integers.  The convergence metric cnv is kept as the pair <<n, d>> of   *)
(* its square n/d, so that comparisons of cnv are exact.  The property     *)
(* provider (Mutation++), the tridiagonal solves and numpy.linalg.solve    *)
(* are external: their results are drawn from small sets, and each call    *)
(* may raise.                                                              *)
(***************************************************************************)
EXTENDS Integers, Sequences, FiniteSets, TLC

\* ------------------------------------------------------------------ bounds
\* cases of a multi-case data file
MaxCases == 2
\* after this many halvings d*relax is rounded away (relax underflows)
MaxHalvings == 3

\* ------------------------------------------------- program constants
\* ProgramConstants.DynJac; jac_diff is counted in units of 1e-3,
\* 0.01 is 1/DCNV_PERCENT_INV and 0.05 is 1/VARS_INCREASE_INV
DCNV_PERCENT_INV == 100
JAC_DIFF_MAX == 100
JAC_DIFF_INCREASE == 4
VARS_INCREASE_INV == 20
OFFSET_T_T == 5000
\* jacobian_matrix.py 93: the matrix has four rows and four columns
JAC_SIZE == 4

\* ------------------------------------------------- input domains
\* Values an input file can hold; is_valid_data accepts any number > 0.
\* Temperatures in K, velocities in m/s, pressures in Pa.
MinTRelaxValues == {200}
MaxTRelaxValues == {18000}
TwValues == {400}
PStagValues == {10000}
T0Values == {160, 17200}
Tt0Values == {6000}
U0Values == {500}
\* initial total pressure of the input file, before the consistency check
Pt0Values == {9984}
\* 0.5*rho*u^2 for the densities the property provider can return
HeadValues == {8}
\* the pressure coefficients of Homann's and Carleton's corrections for the
\* Reynolds numbers the property provider can give
CpValues == {2}
JacDiffValues == {50}
MaxNewtonIterValues == {1, 2}
MaxHfIterValues == {1, 2}
\* hf_conv, in units of 1/PROFILE_ONE
HfConvValues == {1}
\* squared tolerance: newton_conv = 1/2
NewtonConvValues == {<<1, 4>>}
\* the residuals (heat flux, enthalpy, entropy) one evaluation of the
\* equations can return, component by component
ResValues == <<{0, 2}, {0}, {0}>>
\* the solutions of the linear system for a non-zero right-hand side
DValues == {<<64, 64, 16384, 64>>, <<-16384, -16384, -16384, -16384>>}
\* the signs random.choice draws for the four perturbed variables
SignValues == {<<1, 1, 1, 1>>, <<-1, 1, -1, 1>>}

VARIABLES
    pc,               \* position in main.py
    program_mode,     \* 1 single run, 2 xlsx run, 3 file run
    db_used,          \* a database_settings.pfs file was found
    n_lines,          \* number of cases of the input
    n_case,           \* case counter of the main loop
    out,              \* the fourteen output vectors
    species_names_out, species_Y_out,   \* dictionaries keyed by n_case
    db_inputs,        \* the ten columns of the database inputs
    run_time_vect,    \* run time of each case
    inputs_object, settings_object, probes_object,   \* data of the case
    T, u, T_t, P_t,   \* Newton variables
    P_b,              \* Barker pressure of the last evaluation of the residuals
    iter, has_converged, exit_due_error, bad_hf,
    res, cnv, cnv_ref, cnv_old,
    d_vars, star, relax,                \* under_relaxation
    dj,               \* locals of dynamic_jacobian_diff
    hf,               \* locals of heat_flux (law 0)
    file_marker,      \* hf_first_comp.var: <<0>> or <<1>>, or NoFile
    file_xyz,         \* x.var, y.var, z.var: the case whose evaluation
                      \* saved them
    raised,           \* the uncaught exception that ended the run, if any
    call,             \* a function called on its own: name, arguments, result
    hist              \* history of the current case, read by the properties

vars == <<pc, program_mode, db_used, n_lines, n_case, out, species_names_out,
          species_Y_out, db_inputs, run_time_vect, inputs_object,
          settings_object, probes_object, T, u, T_t, P_t, P_b, iter,
          has_converged,
          exit_due_error, bad_hf, res, cnv, cnv_ref, cnv_old, d_vars, star,
          relax, dj, hf, file_marker, file_xyz, raised, call, hist>>

\* ------------------------------------------------------------- helpers
NoObject == [none |-> TRUE]
\* a temporary file that does not exist
NoFile == << >>
NoProfile == [case |-> 0]
NoStar == [T |-> 0, u |-> 0, T_t |-> 0, P_t |-> 0]
\* heat_flux: caller, the result (ok: returned, ~ok: raised; bad: the
\* did-not-converge flag) and the locals of heat_flux_hf_law0.heat_flux.
\* it: passes of the loop; z: the profile ("seed", "prev": loaded from the
\* files, "relaxed"); n_resets: calls of reset_vars in the loop;
\* violations: calls of properties_across_BL that returned redo, up to 2;
\* capped: the loop ended without stop; saved: the files were written
\* prof: the values of the profiles F (y) and g (z) at the wall (0) and at
\* the edge (N), in units of 1/PROFILE_ONE; T_e: the edge temperature
NoProf == [y0 |-> 0, yN |-> 0, z0 |-> 0, zN |-> 0]
NoHf == [caller |-> "none", ok |-> TRUE, bad |-> FALSE, capped |-> FALSE,
         saved |-> FALSE, it |-> 0, already_reset |-> FALSE, n_resets |-> 0,
         violations |-> 0, hf_first_comp |-> 0, z |-> "none", T_e |-> 0,
         prof |-> NoProf]
NoDj == [active |-> FALSE]
NoCall == [fn |-> "none"]
\* resets: domain violations of the case recovered by a reset of the
\* profile, counted up to 2;
\* seeded_at_root: the residuals of iteration 1 were all zero;
\* fates: how each finished case ended ("invalid", "failed", "solved");
\* n_eq: the value main.py 195-198 gave n_eq;
\* cnv_terms: how many components of res the last convergence metric summed;
\* jac_rows: rows of the matrix jacobian_matrix returned, until it is solved;
\* stabilized: dynamic_jacobian_diff moved the variables in this iteration;
\* q_at: the arguments <<P_t, T_t, u>> of the heat_flux call that gave the q
\* of main.py; base_at: the state <<T, u, T_t, P_t>> at which the h, h_t, s,
\* s_t and P_b of main.py were evaluated; ic_in_bounds: the initial
\* conditions of the case satisfy the bounds of under_relaxation;
\* jac_diff_at_call: settings.jac_diff when dynamic_jacobian_diff was called;
\* res_capped: the heat-flux evaluation behind the current residual ended
\* at max_hf_iter without convergence
NewHist(fates) ==
    [resets |-> 0, seeded_at_root |-> FALSE, fates |-> fates, n_eq |-> 0,
     cnv_terms |-> 0, jac_rows |-> 0, stabilized |-> FALSE, q_at |-> <<>>,
     base_at |-> <<>>, ic_in_bounds |-> FALSE,
     jac_diff_at_call |-> 0, res_capped |-> FALSE]

\* one entry appended to every column of a record of lists
AppendRow(cols, row) ==
    [col \in DOMAIN cols |-> Append(cols[col], row[col])]

initialize_output_vectors ==
    [has_converged_out |-> <<>>, rho_out |-> <<>>, T_out |-> <<>>,
     h_out |-> <<>>, u_out |-> <<>>, a_out |-> <<>>, M_out |-> <<>>,
     T_t_out |-> <<>>, h_t_out |-> <<>>, P_t_out |-> <<>>, Re_out |-> <<>>,
     Kn_out |-> <<>>, warnings_out |-> <<>>, res_out |-> <<>>]

ErrorString(type_error) ==
    IF type_error = 0 THEN "Error: invalid data"
    ELSE "Error detected during the computation."

\* append_error_case that appends nothing
append_error_case_omitted(o, type_error) == o

\* out_properties.py 35-81
append_error_case(o, type_error) ==
    AppendRow(o,
      [has_converged_out |-> ErrorString(type_error), rho_out |-> -1,
       T_out |-> -1, h_out |-> -1, u_out |-> -1, a_out |-> -1, M_out |-> -1,
       T_t_out |-> -1, h_t_out |-> -1, P_t_out |-> -1, Re_out |-> -1,
       Kn_out |-> -1, warnings_out |-> ErrorString(type_error),
       res_out |-> -1])

\* main.py 355-367; every computed quantity is abstracted to 1
append_output_case(o, conv) ==
    AppendRow(o,
      [has_converged_out |-> IF conv THEN "yes" ELSE "no", rho_out |-> 1,
       T_out |-> 1, h_out |-> 1, u_out |-> 1, a_out |-> 1, M_out |-> 1,
       T_t_out |-> 1, h_t_out |-> 1, P_t_out |-> 1, Re_out |-> 1,
       Kn_out |-> 1, warnings_out |-> "None", res_out |-> 1])

db_inputs_init ==
    [P |-> <<>>, P_dyn |-> <<>>, q_target |-> <<>>, mixture_name |-> <<>>,
     T_w |-> <<>>, R_p |-> <<>>, R_m |-> <<>>, R_j |-> <<>>,
     barker_type |-> <<>>, stag_type |-> <<>>]

\* every recorded input is abstracted to 1
db_inputs_append(d, inp, prb) ==
    AppendRow(d,
      [P |-> 1, P_dyn |-> 1, q_target |-> 1, mixture_name |-> 1,
       T_w |-> 1, R_p |-> 1, R_m |-> 1, R_j |-> 1,
       barker_type |-> 1, stag_type |-> 1])

db_inputs_append_null_line(d) ==
    AppendRow(d,
      [P |-> -1, P_dyn |-> -1, q_target |-> -1, mixture_name |-> -1,
       T_w |-> -1, R_p |-> -1, R_m |-> -1, R_j |-> -1, barker_type |-> -1,
       stag_type |-> -1])

\* dict[key] = value
DictSet(d, key, value) ==
    [k \in (DOMAIN d) \cup {key} |-> IF k = key THEN value ELSE d[k]]

\* ---------------------------------------------------------------- Init
\* The runs explored: program mode, whether a database is used, number of
\* cases of the data file (read_srun.py 207: one case in single run).
Runs == {<<1, FALSE, 1>>, <<2, TRUE, MaxCases>>, <<3, FALSE, 1>>}

\* main.py up to the main program loop: mode, database, output vectors.
ProgramStart(run) ==
    /\ pc = "case_loop"
    /\ program_mode = run[1]
    /\ db_used = run[2]
    /\ n_lines = run[3]
    /\ n_case = 0
    /\ out = initialize_output_vectors
    /\ species_names_out = << >>
    /\ species_Y_out = << >>
    /\ db_inputs = db_inputs_init
    /\ run_time_vect = << >>
    /\ inputs_object = NoObject
    /\ settings_object = NoObject
    /\ probes_object = NoObject
    /\ T = 0 /\ u = 0 /\ T_t = 0 /\ P_t = 0 /\ P_b = 0
    /\ iter = 0
    /\ has_converged = FALSE
    /\ exit_due_error = FALSE
    /\ bad_hf = FALSE
    /\ res = <<0, 0, 0, 0>>
    /\ cnv = <<0, 1>> /\ cnv_ref = 0 /\ cnv_old = <<0, 1>>
    /\ d_vars = <<0, 0, 0, 0>>
    /\ star = NoStar
    /\ relax = 0
    /\ dj = NoDj
    /\ hf = NoHf
    /\ file_marker = NoFile
    /\ file_xyz = NoProfile
    /\ raised = "none"
    /\ hist = NewHist(<< >>)

Init ==
    /\ call = NoCall
    /\ \E run \in Runs : ProgramStart(run)

\* ------------------------------------------------------ the case loop
Barker(prb) == prb.barker_type /= 0

\* main.py 195-198
n_eq(prb) == IF prb.barker_type = 0 THEN 3 ELSE 4

\* The rows retrieve_data can return for a case.  With barker_type = 0 the
\* retrievers set P_t_0 to P_stag.
\* The settings of the boundary layer are varied for the exact law only.
ProbesRows == [T_w : TwValues, hf_law : {0, 1}, barker_type : {0, 1}]
SettingsRows(prb) ==
    {st \in [max_hf_iter : MaxHfIterValues, use_prev_ite : {0, 1},
             hf_conv : HfConvValues,
             log_warning_hf : {0, 1}, newton_conv : NewtonConvValues,
             max_newton_iter : MaxNewtonIterValues, jac_diff : JacDiffValues,
             min_T_relax : MinTRelaxValues, max_T_relax : MaxTRelaxValues] :
        prb.hf_law = 1 => st.max_hf_iter = 1 /\ st.log_warning_hf = 1}
InputsRows == [P_stag : PStagValues]
\* ConsistentPt0 that keeps the value of the input file
ConsistentPt0_kept(prb, inp, P_t_0) == P_t_0

\* retrieve_data_xlsx.py 362-365 (retrieve_data_srun.py 84-87,
\* retrieve_data_filerun.py 174-176): Barker's effect and P_t_0 consistency
ConsistentPt0(prb, inp, P_t_0) ==
    IF prb.barker_type = 0 /\ P_t_0 /= inp.P_stag THEN inp.P_stag ELSE P_t_0

InitialsRows(inp, prb) ==
    {[T_0 |-> t0, T_t_0 |-> tt0, u_0 |-> u0,
      P_t_0 |-> ConsistentPt0(prb, inp, pt0)] :
        t0 \in T0Values, tt0 \in Tt0Values, u0 \in U0Values,
        pt0 \in Pt0Values}

\* every variable of the Newton loop and of the functions it calls
NewtonVars == <<T, u, T_t, P_t, P_b, iter, has_converged, exit_due_error, bad_hf,
                res, cnv, cnv_ref, cnv_old, d_vars, star, relax, dj, hf>>
OutputVars == <<out, species_names_out, species_Y_out, db_inputs,
                run_time_vect>>
CaseVars == <<inputs_object, settings_object, probes_object>>
ModeVars == <<program_mode, db_used, n_lines>>
FileVars == <<file_marker, file_xyz>>

\* main.py 117-141: retrieve_data raised for the case.
RetrieveDataInvalid ==
    /\ pc = "case_loop"
    /\ n_case < n_lines
    /\ IF program_mode = 1
       THEN /\ pc' = "exited"
            /\ UNCHANGED <<n_case, OutputVars>>
       ELSE /\ out' = append_error_case(out, 0)
            /\ n_case' = n_case + 1
            /\ species_names_out' = DictSet(species_names_out, n_case + 1, "None")
            /\ species_Y_out' = DictSet(species_Y_out, n_case + 1, "None")
            /\ IF db_used
               THEN /\ db_inputs' = db_inputs_append_null_line(db_inputs)
                    /\ run_time_vect' = Append(run_time_vect, -1)
               ELSE UNCHANGED <<db_inputs, run_time_vect>>
            /\ pc' = "case_loop"
    /\ hist' = IF program_mode = 1 THEN hist
               ELSE NewHist(Append(hist.fates, "invalid"))
    /\ UNCHANGED <<call, ModeVars, CaseVars, NewtonVars, FileVars, raised>>

\* newton_operations.py 39-41
TooLow(s_, st, prb) ==
    \/ s_.T < st.min_T_relax
    \/ s_.u < 0
    \/ s_.T_t < st.min_T_relax
    \/ s_.P_t < 0
    \/ s_.T_t < prb.T_w

\* newton_operations.py 50
TooHigh(s_, st) == s_.T > st.max_T_relax \/ s_.T_t > st.max_T_relax

\* ResetMarker that writes the marker only when the file does not exist
ResetMarker_once(prb, st, marker) ==
    IF prb.hf_law = 0 /\ st.use_prev_ite = 1 /\ marker = NoFile THEN <<0>>
    ELSE marker

\* main.py 200-205: hf_first_comp.var at the start of a case
ResetMarker(prb, st, marker) ==
    IF prb.hf_law = 0 /\ st.use_prev_ite = 1 THEN <<0>> ELSE marker

\* main.py 117-223: the data of the case are valid; the loop variables are
\* reset, the warm-start marker is reset for the exact law with use_prev_ite.
RetrieveData ==
    /\ pc = "case_loop"
    /\ n_case < n_lines
    /\ \E prb \in ProbesRows, inp \in InputsRows :
         \E st \in SettingsRows(prb), ini \in InitialsRows(inp, prb) :
           /\ settings_object' = st
           /\ probes_object' = prb
           /\ inputs_object' = inp
           /\ T' = ini.T_0
           /\ T_t' = ini.T_t_0
           /\ u' = ini.u_0
           /\ P_t' = ini.P_t_0
           /\ P_b' = 0
           /\ file_marker' = ResetMarker(prb, st, file_marker)
           /\ db_inputs' = IF db_used THEN db_inputs_append(db_inputs, inp, prb)
                           ELSE db_inputs
           /\ hist' = [NewHist(hist.fates) EXCEPT
                         !.n_eq = n_eq(prb),
                         !.ic_in_bounds =
                            LET ic == [T |-> ini.T_0, u |-> ini.u_0,
                                       T_t |-> ini.T_t_0, P_t |-> ini.P_t_0]
                            IN  ~TooLow(ic, st, prb) /\ ~TooHigh(ic, st)]
    /\ n_case' = n_case + 1
    /\ bad_hf' = FALSE
    /\ iter' = 0
    /\ has_converged' = FALSE
    /\ exit_due_error' = FALSE
    \* not read before they are assigned again
    /\ res' = <<0, 0, 0, 0>>
    /\ cnv' = <<0, 1>> /\ cnv_ref' = 0 /\ cnv_old' = <<0, 1>>
    /\ d_vars' = <<0, 0, 0, 0>>
    /\ star' = NoStar
    /\ relax' = 0
    /\ pc' = "newton_loop"
    /\ UNCHANGED <<call, ModeVars, out, species_names_out, species_Y_out,
                   run_time_vect, dj, hf, file_xyz, raised>>

\* main.py 374-405: all cases done, the output is written.
WriteOutput ==
    /\ pc = "case_loop"
    /\ n_case >= n_lines
    /\ pc' = "done"
    /\ UNCHANGED <<call, ModeVars, n_case, OutputVars, CaseVars, NewtonVars,
                   FileVars, raised, hist>>

\* ----------------------------------------------------- the Newton loop
\* NewtonLoopGuard with <= for <
NewtonLoopGuard_le(i, max_newton_iter) == i <= max_newton_iter

\* main.py 225: while (iter < max_newton_iter)
NewtonLoopGuard(i, max_newton_iter) == i < max_newton_iter

\* newton_operations.py 77: settings_object.jac_diff *= JAC_DIFF_INCREASE
IncreasedJacDiff(jac_diff) == jac_diff * JAC_DIFF_INCREASE

RECURSIVE SumSq(_, _)
\* pow(r[1],2) + ... + pow(r[n],2)
SumSq(r, n) == IF n = 0 THEN 0 ELSE SumSq(r, n - 1) + r[n] * r[n]

\* a < b for the squares a = <<n1, d1>>, b = <<n2, d2>> of two metrics
Less(a, b) == a[1] * b[2] < b[1] * a[2]

\* abs(cnv_old - cnv)/cnv_old < DCNV_PERCENT, on the squares
Stalled(c, c_old) ==
    LET lo == (DCNV_PERCENT_INV - 1) * (DCNV_PERCENT_INV - 1)
        mid == DCNV_PERCENT_INV * DCNV_PERCENT_INV
        hi == (DCNV_PERCENT_INV + 1) * (DCNV_PERCENT_INV + 1)
    IN  /\ lo * c_old[1] * c[2] < mid * c[1] * c_old[2]
        /\ mid * c[1] * c_old[2] < hi * c_old[1] * c[2]

\* C_p that applies the correction whatever the Barker type
C_p_always(barker_type, cp) == cp

\* barker_effect.py 58-67: the pressure coefficient; cp: the value of the
\* correction formula at the Reynolds number of the call
C_p(barker_type, cp) == IF barker_type = 0 THEN 0 ELSE cp

\* barker_effect.py 33-70: P_b = P_t + 0.5*rho*pow(u, 2)*C_p; head is
\* 0.5*rho*pow(u, 2)
barker_effect(prb, P_t_, head, cp) == P_t_ + head * C_p(prb.barker_type, cp)

\* BarkerPressures with the correction applied whatever the Barker type
BarkerPressures_corrected(prb, P_t_) ==
    {P_t_ + head * cp : head \in HeadValues, cp \in CpValues}

\* the Barker pressures the property provider allows at total pressure P_t_
BarkerPressures(prb, P_t_) ==
    {barker_effect(prb, P_t_, head, cp) : head \in HeadValues,
                                         cp \in CpValues}

\* the residuals one evaluation of the equations can give at total pressure
\* P_t_ (main.py 246-250): the fourth one is -(P_b - P_stag)
Residuals(prb, inp, P_t_) ==
    {<<r1, r2, r3, inp.P_stag - pb>> :
        r1 \in ResValues[1], r2 \in ResValues[2], r3 \in ResValues[3],
        pb \in BarkerPressures(prb, P_t_)}

\* heat_flux.heat_flux is entered on behalf of `caller'
CallHeatFlux(caller) ==
    /\ pc' = "hf_start"
    /\ hf' = [NoHf EXCEPT !.caller = caller]

\* main.py 225-229: loop test, iter += 1, call of heat_flux.
NewtonLoop ==
    /\ pc = "newton_loop"
    /\ IF NewtonLoopGuard(iter, settings_object.max_newton_iter)
       THEN /\ iter' = iter + 1
            /\ CallHeatFlux("main")
            /\ hist' = [hist EXCEPT !.stabilized = FALSE]
       ELSE /\ pc' = "post"
            /\ UNCHANGED <<iter, hf, hist>>
    /\ UNCHANGED <<call, ModeVars, n_case, OutputVars, CaseVars, T, u, T_t, P_t, P_b,
                   has_converged, exit_due_error, bad_hf, res, cnv, cnv_ref,
                   cnv_old, d_vars, star, relax, dj, FileVars, raised>>

\* StallGuard that tests the ceiling only
StallGuard_ceiling(c, c_old, jac_diff) == jac_diff < JAC_DIFF_MAX

\* newton_operations.py 75: the stall test
StallGuard(c, c_old, jac_diff) == Stalled(c, c_old) /\ jac_diff < JAC_DIFF_MAX

\* newton_operations.py 81-90: the perturbed variables (sg: the random sign)
Perturbed(x, sg) == x + sg * (x \div VARS_INCREASE_INV)
ClampT(x, st) == IF x < st.min_T_relax THEN st.min_T_relax ELSE x
ClampTt(x, st) == IF x > st.max_T_relax THEN st.max_T_relax - OFFSET_T_T ELSE x

\* main.py 230-272: the heat flux has returned; residuals, convergence
\* metric, and dynamic_jacobian_diff up to its call of heat_flux.
NewtonResiduals ==
    /\ pc = "main_hf_done"
    /\ \/ \* main.py 230-234: except clause of the heat-flux call
          /\ ~hf.ok
          /\ exit_due_error' = TRUE
          /\ pc' = "post"
          /\ hf' = NoHf
          /\ UNCHANGED <<bad_hf, res, cnv, cnv_ref, cnv_old, dj, P_b,
                         settings_object, raised, hist>>
       \/ \* main.py 236-242: enthalpy, entropy or barker_effect raises and
          \* no handler encloses the call
          /\ hf.ok
          /\ bad_hf' = hf.bad
          /\ pc' = "crashed"
          /\ raised' = "property provider"
          /\ hf' = NoHf
          /\ UNCHANGED <<exit_due_error, res, cnv, cnv_ref, cnv_old, dj, P_b,
                         settings_object, hist>>
       \/ /\ hf.ok
          /\ bad_hf' = hf.bad
          /\ UNCHANGED exit_due_error
          /\ \E r \in Residuals(probes_object, inputs_object, P_t) :
               LET c == <<SumSq(r, n_eq(probes_object)), cnv_ref>> IN
               /\ res' = r
               /\ P_b' = inputs_object.P_stag - r[4]
               /\ IF iter = 1
                  THEN \* main.py 255-258
                       /\ cnv_ref' = SumSq(r, n_eq(probes_object))
                       /\ cnv' = <<1, 1>>
                       /\ cnv_old' = <<1, 1>>
                       /\ hist' = [hist EXCEPT
                                     !.seeded_at_root =
                                        (SumSq(r, n_eq(probes_object)) = 0),
                                     !.cnv_terms = n_eq(probes_object),
                                     !.q_at = <<P_t, T_t, u>>,
                                     !.base_at = <<T, u, T_t, P_t>>,
                                     !.res_capped = hf.capped]
                       /\ pc' = "check"
                       /\ hf' = NoHf
                       /\ UNCHANGED <<dj, settings_object, raised>>
                  ELSE IF cnv_ref = 0
                  THEN \* main.py 260: math.sqrt(cnv)/cnv_ref divides by
                       \* zero and no handler encloses it
                       /\ pc' = "crashed"
                       /\ raised' = "ZeroDivisionError"
                       /\ hf' = NoHf
                       /\ hist' = [hist EXCEPT
                                     !.cnv_terms = n_eq(probes_object),
                                     !.q_at = <<P_t, T_t, u>>,
                                     !.base_at = <<T, u, T_t, P_t>>,
                                     !.res_capped = hf.capped]
                       /\ UNCHANGED <<cnv, cnv_ref, cnv_old, dj,
                                      settings_object>>
                  ELSE IF cnv_old[1] = 0
                  THEN \* newton_operations.py 74 divides by zero; handled at
                       \* main.py 269-272
                       /\ cnv' = c
                       /\ cnv_old' = c
                       /\ pc' = "check"
                       /\ hf' = NoHf
                       /\ hist' = [hist EXCEPT
                                     !.cnv_terms = n_eq(probes_object),
                                     !.q_at = <<P_t, T_t, u>>,
                                     !.base_at = <<T, u, T_t, P_t>>,
                                     !.res_capped = hf.capped]
                       /\ UNCHANGED <<cnv_ref, dj, settings_object, raised>>
                  ELSE IF StallGuard(c, cnv_old, settings_object.jac_diff)
                  THEN \* newton_operations.py 75-93
                       \E sg \in SignValues :
                       /\ cnv' = c
                       /\ settings_object' =
                            [settings_object EXCEPT !.jac_diff =
                               IncreasedJacDiff(@)]
                       /\ dj' = [active |-> TRUE,
                                 T |-> ClampT(Perturbed(T, sg[1]),
                                              settings_object),
                                 u |-> Perturbed(u, sg[2]),
                                 T_t |-> ClampTt(Perturbed(T_t, sg[3]),
                                                 settings_object),
                                 P_t |-> IF Barker(probes_object)
                                         THEN Perturbed(P_t, sg[4])
                                         ELSE P_t]
                       /\ CallHeatFlux("dynjac")
                       /\ hist' = [hist EXCEPT
                                     !.cnv_terms = n_eq(probes_object),
                                     !.q_at = <<P_t, T_t, u>>,
                                     !.base_at = <<T, u, T_t, P_t>>,
                                     !.res_capped = hf.capped,
                                     !.stabilized = TRUE,
                                     !.jac_diff_at_call =
                                        settings_object.jac_diff]
                       /\ UNCHANGED <<cnv_ref, cnv_old, raised>>
                  ELSE \* newton_operations.py 110 and main.py 272
                       /\ cnv' = c
                       /\ cnv_old' = c
                       /\ pc' = "check"
                       /\ hf' = NoHf
                       /\ hist' = [hist EXCEPT
                                     !.cnv_terms = n_eq(probes_object),
                                     !.q_at = <<P_t, T_t, u>>,
                                     !.base_at = <<T, u, T_t, P_t>>,
                                     !.res_capped = hf.capped]
                       /\ UNCHANGED <<cnv_ref, dj, settings_object, raised>>
    /\ UNCHANGED <<call, ModeVars, n_case, OutputVars, inputs_object, probes_object,
                   T, u, T_t, P_t, iter, has_converged, d_vars, star, relax,
                   FileVars>>

\* newton_operations.py 94-110 and main.py 262-272: the heat flux of the
\* perturbed point has returned; the residual is recomputed.
DynJacResiduals ==
    /\ pc = "dynjac_hf_done"
    /\ hf' = NoHf
    /\ dj' = NoDj
    /\ pc' = "check"
    /\ \/ \* heat_flux, enthalpy, entropy or barker_effect raised: the
          \* assignment of main.py 262 does not happen
          /\ cnv_old' = cnv
          /\ UNCHANGED <<cnv, res, T, u, T_t, P_t, P_b, hist>>
       \/ /\ hf.ok
          /\ cnv_ref /= 0
          /\ \E r \in Residuals(probes_object, inputs_object, dj.P_t) :
               /\ res' = r
               /\ P_b' = inputs_object.P_stag - r[4]
               /\ cnv' = <<SumSq(r, Len(r)), cnv_ref>>
               /\ cnv_old' = <<SumSq(r, Len(r)), cnv_ref>>
               /\ hist' = [hist EXCEPT
                             !.cnv_terms = Len(r),
                             !.base_at = <<dj.T, dj.u, dj.T_t, dj.P_t>>,
                             !.res_capped = hf.capped]
          /\ T' = dj.T
          /\ u' = dj.u
          /\ T_t' = dj.T_t
          /\ P_t' = dj.P_t
    /\ UNCHANGED <<call, ModeVars, n_case, OutputVars, CaseVars, iter,
                   has_converged, exit_due_error, bad_hf, cnv_ref, d_vars,
                   star, relax, FileVars, raised>>

\* main.py 280: if (cnv < newton_conv)
ConvergedGuard(c, newton_conv) == Less(c, newton_conv)

\* jacobian_matrix.py 39-58 on behalf of main.py 277-293: convergence test,
\* then the T column of the Jacobian and the heat flux of the u column.
ConvergenceCheck ==
    /\ pc = "check"
    /\ IF iter > settings_object.max_newton_iter
       THEN /\ pc' = "post"
            /\ UNCHANGED <<has_converged, exit_due_error, hf>>
       ELSE IF ConvergedGuard(cnv, settings_object.newton_conv)
       THEN /\ has_converged' = TRUE
            /\ pc' = "post"
            /\ UNCHANGED <<exit_due_error, hf>>
       ELSE \/ \* a provider call of the T column raises, or T*jac_diff = 0
               /\ exit_due_error' = TRUE
               /\ pc' = "post"
               /\ UNCHANGED <<has_converged, hf>>
            \/ /\ T * settings_object.jac_diff /= 0
               /\ CallHeatFlux("jac_u")
               /\ UNCHANGED <<has_converged, exit_due_error>>
    /\ UNCHANGED <<call, ModeVars, n_case, OutputVars, CaseVars, T, u, T_t, P_t, P_b,
                   iter, bad_hf, res, cnv, cnv_ref, cnv_old, d_vars, star,
                   relax, dj, FileVars, raised, hist>>

\* a heat-flux evaluation of the Jacobian raised, or a later provider call
\* or division of the column did: except clause of main.py 290-293
JacobianRaises ==
    /\ exit_due_error' = TRUE
    /\ pc' = "post"
    /\ hf' = NoHf
    /\ UNCHANGED hist

\* jacobian_matrix.py 92-111: every entry of the matrix is assigned
JacobianReturned ==
    /\ pc' = "solve"
    /\ hf' = NoHf
    /\ hist' = [hist EXCEPT !.jac_rows = JAC_SIZE]

\* jacobian_matrix.py 55-64: rest of the u column, heat flux of the T_t column.
JacobianU ==
    /\ pc = "jac_u_hf_done"
    /\ \/ JacobianRaises
       \/ /\ hf.ok
          /\ u * settings_object.jac_diff /= 0
          /\ CallHeatFlux("jac_Tt")
          /\ UNCHANGED <<exit_due_error, hist>>
    /\ UNCHANGED <<call, ModeVars, n_case, OutputVars, CaseVars, T, u, T_t, P_t, P_b,
                   iter, has_converged, bad_hf, res, cnv, cnv_ref, cnv_old,
                   d_vars, star, relax, dj, FileVars, raised>>

\* jacobian_matrix.py 65-77: rest of the T_t column; with a Barker correction
\* the heat flux of the P_t column, otherwise the matrix is returned.
JacobianTt ==
    /\ pc = "jac_Tt_hf_done"
    /\ \/ JacobianRaises
       \/ /\ hf.ok
          /\ T_t * settings_object.jac_diff /= 0
          /\ IF Barker(probes_object)
             THEN CallHeatFlux("jac_Pt") /\ UNCHANGED hist
             ELSE JacobianReturned
          /\ UNCHANGED exit_due_error
    /\ UNCHANGED <<call, ModeVars, n_case, OutputVars, CaseVars, T, u, T_t, P_t, P_b,
                   iter, has_converged, bad_hf, res, cnv, cnv_ref, cnv_old,
                   d_vars, star, relax, dj, FileVars, raised>>

\* jacobian_matrix.py 78-111: rest of the P_t column, the matrix is returned.
JacobianPt ==
    /\ pc = "jac_Pt_hf_done"
    /\ \/ JacobianRaises
       \/ /\ hf.ok
          /\ P_t * settings_object.jac_diff /= 0
          /\ JacobianReturned
          /\ UNCHANGED exit_due_error
    /\ UNCHANGED <<call, ModeVars, n_case, OutputVars, CaseVars, T, u, T_t, P_t, P_b,
                   iter, has_converged, bad_hf, res, cnv, cnv_ref, cnv_old,
                   d_vars, star, relax, dj, FileVars, raised>>

\* Solutions of the full system, whatever n
Solutions_full(n, b) ==
    IF SumSq(b, Len(b)) = 0 THEN {[i \in 1..Len(b) |-> 0]}
    ELSE DValues

\* the solutions numpy.linalg.solve can return: zero for a zero right-hand
\* side, and no component beyond the n-th
Solutions(n, b) ==
    IF SumSq(b, n) = 0 THEN {[i \in 1..n |-> 0]}
    ELSE {[i \in 1..n |-> d[i]] : d \in DValues}

\* main.py 294-308: system_solve and the proposed new values.
SystemSolve ==
    /\ pc = "solve"
    /\ \/ \* the matrix is singular: except clause of main.py 297-300
          /\ exit_due_error' = TRUE
          /\ pc' = "post"
          /\ UNCHANGED <<d_vars, star, relax>>
       \/ \E d \in Solutions(n_eq(probes_object), res) :
            /\ d_vars' = d
            /\ star' = [T |-> T + d[1], u |-> u + d[2], T_t |-> T_t + d[3],
                        P_t |-> IF Barker(probes_object) THEN P_t + d[4]
                                ELSE P_t]
            /\ relax' = 0
            /\ pc' = "relax_low"
            /\ UNCHANGED exit_due_error
    /\ hist' = [hist EXCEPT !.jac_rows = 0]
    /\ UNCHANGED <<call, ModeVars, n_case, OutputVars, CaseVars, T, u, T_t, P_t, P_b,
                   iter, has_converged, bad_hf, res, cnv, cnv_ref, cnv_old,
                   dj, hf, FileVars, raised>>

\* ----------------------------------------------------- under_relaxation
RECURSIVE Pow2(_)
Pow2(k) == IF k = 0 THEN 1 ELSE 2 * Pow2(k - 1)

\* d*relax after k halvings of relax; beyond MaxHalvings the product is
\* rounded away and x + d*relax = x
Scaled(d, k) ==
    IF k > MaxHalvings THEN 0
    ELSE IF d >= 0 THEN d \div Pow2(k) ELSE -((-d) \div Pow2(k))

\* newton_operations.py 44-48 and 53-57: the new values for relax = 1/2^k
Relaxed(k, prb, s_) ==
    [T |-> T + Scaled(d_vars[1], k),
     u |-> u + Scaled(d_vars[2], k),
     T_t |-> T_t + Scaled(d_vars[3], k),
     P_t |-> IF Barker(prb) THEN P_t + Scaled(d_vars[4], k) ELSE s_.P_t]

NextRelax(k) == IF k > MaxHalvings THEN k ELSE k + 1

\* newton_operations.py 39-48: one pass of the first loop, or its exit.
UnderRelaxLow ==
    /\ pc = "relax_low"
    /\ IF TooLow(star, settings_object, probes_object)
       THEN /\ relax' = NextRelax(relax)
            /\ star' = Relaxed(NextRelax(relax), probes_object, star)
            /\ pc' = "relax_low"
       ELSE /\ pc' = "relax_high"
            /\ UNCHANGED <<relax, star>>
    /\ UNCHANGED <<call, ModeVars, n_case, OutputVars, CaseVars, T, u, T_t, P_t, P_b,
                   iter, has_converged, exit_due_error, bad_hf, res, cnv,
                   cnv_ref, cnv_old, d_vars, dj, hf, FileVars, raised, hist>>

\* newton_operations.py 50-58 and main.py 316-320: one pass of the second
\* loop, or the return and the assignment of the new values.
UnderRelaxHigh ==
    /\ pc = "relax_high"
    /\ IF TooHigh(star, settings_object)
       THEN /\ relax' = NextRelax(relax)
            /\ star' = Relaxed(NextRelax(relax), probes_object, star)
            /\ pc' = "relax_high"
            /\ UNCHANGED <<T, u, T_t, P_t>>
       ELSE /\ T' = star.T
            /\ u' = star.u
            /\ T_t' = star.T_t
            /\ P_t' = IF Barker(probes_object) THEN star.P_t ELSE P_t
            /\ pc' = "newton_loop"
            /\ UNCHANGED <<relax, star>>
    /\ UNCHANGED <<call, ModeVars, n_case, OutputVars, CaseVars, P_b, iter,
                   has_converged, exit_due_error, bad_hf, res, cnv, cnv_ref,
                   cnv_old, d_vars, dj, hf, FileVars, raised, hist>>

\* ------------------------------------------------------- end of a case
\* main.py 322-373: run time, bad_hf, error case or output properties.
PostLoop ==
    /\ pc = "post"
    /\ run_time_vect' = IF db_used THEN Append(run_time_vect, 1)
                        ELSE run_time_vect
    /\ IF exit_due_error /\ program_mode /= 1
       THEN /\ out' = append_error_case(out, 1)
            /\ species_names_out' = DictSet(species_names_out, n_case, "None")
            /\ species_Y_out' = DictSet(species_Y_out, n_case, "None")
            /\ hist' = NewHist(Append(hist.fates, "failed"))
            /\ pc' = "case_loop"
            /\ UNCHANGED raised
       ELSE IF exit_due_error
       THEN /\ pc' = "exited"
            /\ hist' = NewHist(hist.fates)
            /\ UNCHANGED <<out, species_names_out, species_Y_out, raised>>
       ELSE \/ \* out_properties or mass_fraction_composition raises
               /\ pc' = "crashed"
               /\ raised' = "out_properties"
               /\ hist' = NewHist(hist.fates)
               /\ UNCHANGED <<out, species_names_out, species_Y_out>>
            \/ /\ out' = append_output_case(out, has_converged /\ ~bad_hf)
               /\ species_names_out' =
                    DictSet(species_names_out, n_case, "species")
               /\ species_Y_out' = DictSet(species_Y_out, n_case, "species")
               /\ hist' = NewHist(Append(hist.fates, "solved"))
               /\ pc' = "case_loop"
               /\ UNCHANGED raised
    \* the variables of the case are not read again before RetrieveData
    \* assigns them: they are cleared
    /\ inputs_object' = NoObject
    /\ settings_object' = NoObject
    /\ probes_object' = NoObject
    /\ T' = 0 /\ u' = 0 /\ T_t' = 0 /\ P_t' = 0 /\ P_b' = 0
    /\ iter' = 0
    /\ has_converged' = FALSE
    /\ exit_due_error' = FALSE
    /\ bad_hf' = FALSE
    /\ res' = <<0, 0, 0, 0>>
    /\ cnv' = <<0, 1>> /\ cnv_ref' = 0 /\ cnv_old' = <<0, 1>>
    /\ d_vars' = <<0, 0, 0, 0>>
    /\ star' = NoStar
    /\ relax' = 0
    /\ UNCHANGED <<call, ModeVars, n_case, db_inputs, dj, hf, FileVars>>

\* ---------------------------------------------------------- heat_flux
\* where the caller of heat_flux continues
DoneLabel(caller) ==
    CASE caller = "main" -> "main_hf_done"
      [] caller = "dynjac" -> "dynjac_hf_done"
      [] caller = "jac_u" -> "jac_u_hf_done"
      [] caller = "jac_Tt" -> "jac_Tt_hf_done"
      [] caller = "jac_Pt" -> "jac_Pt_hf_done"

\* heat_flux returns (ok) or raises (~ok) to its caller; h: the locals
HeatFluxReturn(h, ok, bad, capped, saved) ==
    /\ pc' = DoneLabel(hf.caller)
    /\ hf' = [h EXCEPT !.ok = ok, !.bad = bad, !.capped = capped,
                       !.saved = saved]

\* heat_flux_hf_law0.py 175: while (iter < max_iter)
HfLoopGuard(i, max_iter) == i < max_iter

\* heat_flux_hf_law0.py 231: if(stop or iter >= max_iter)
HfBreakGuard(stop, i, max_iter) == stop \/ i >= max_iter

\* AlreadyReset of a flag that is never set
AlreadyReset_never(h) == FALSE

\* heat_flux_hf_law0.py 174, 180, 189: the flag already_reset
AlreadyReset(h) == h.already_reset

\* SaveGuard without the test of stop
SaveGuard_always(use_prev_ite, stop) == use_prev_ite = 1

\* SaveGuard that ignores use_prev_ite
SaveGuard_stop(use_prev_ite, stop) == stop

\* heat_flux_hf_law0.py 249: the profile is saved
SaveGuard(use_prev_ite, stop) == use_prev_ite = 1 /\ stop

\* heat_flux_hf_law0.py 232: the did-not-converge flag is set
BadConvergenceGuard(stop, log_warning_hf) == ~stop /\ log_warning_hf = 1

\* the value 1 of the profiles F and g in fixed point
PROFILE_ONE == 64

\* heat_flux_hf_law0.py 16-25: the seed of F
f(eta) ==
    ((7005 * eta * eta * eta - 114439 * eta * eta + 598555 * eta)
        * PROFILE_ONE) \div 1000000

Min(a, b) == IF a < b THEN a ELSE b
Abs(a) == IF a < 0 THEN -a ELSE a

\* T_w/T_e
WallRatio(T_w, T_e_) == (T_w * PROFILE_ONE) \div T_e_

\* heat_flux_hf_law0.py 41-69: the seed profiles at eta = 0 (stretched eta
\* 0) and at eta = eta_max (stretched eta 6)
reset_vars(T_e_, T_w) ==
    [y0 |-> f(0), yN |-> f(6),
     z0 |-> Min(PROFILE_ONE, f(0) + WallRatio(T_w, T_e_)),
     zN |-> Min(PROFILE_ONE, f(6) + 0)]

\* eq_diff_solve.py 107-109: the end values of the solution are the
\* boundary conditions (heat_flux_hf_law0.py 206-207 and 220-221)
solver(f_init, f_final) == [first |-> f_init, last |-> f_final]
new_f == solver(0, PROFILE_ONE)
new_g(T_e_, T_w) == solver(WallRatio(T_w, T_e_), PROFILE_ONE)

\* heat_flux_hf_law0.py 238-241: y[i] = (1-w)*y[i]+w*new_f[i] with w = 0.5
RelaxedProfile(prof, T_e_, T_w) ==
    [y0 |-> (prof.y0 + new_f.first) \div 2,
     yN |-> (prof.yN + new_f.last) \div 2,
     z0 |-> (prof.z0 + new_g(T_e_, T_w).first) \div 2,
     zN |-> (prof.zN + new_g(T_e_, T_w).last) \div 2]

\* heat_flux_hf_law0.py 226-230 at the wall and at the edge: stop stays True
\* only if no point differs by more than hf_conv
BoundaryConverged(prof, T_e_, T_w, hf_conv) ==
    /\ Abs(new_f.first - prof.y0) <= hf_conv
    /\ Abs(new_f.last - prof.yN) <= hf_conv
    /\ Abs(new_g(T_e_, T_w).first - prof.z0) <= hf_conv
    /\ Abs(new_g(T_e_, T_w).last - prof.zN) <= hf_conv

\* the value of stop after the convergence check
StopValues(prof, T_e_, T_w, hf_conv) ==
    IF BoundaryConverged(prof, T_e_, T_w, hf_conv) THEN BOOLEAN ELSE {FALSE}

\* the edge temperature each caller passes to heat_flux: main.py 229,
\* newton_operations.py 93, jacobian_matrix.py 54, 64 and 77
EdgeTemperature(caller) ==
    CASE caller = "main" -> T_t
      [] caller = "dynjac" -> dj.T_t
      [] caller = "jac_u" -> T_t
      [] caller = "jac_Tt" -> T_t + (T_t * settings_object.jac_diff) \div 1000
      [] caller = "jac_Pt" -> T_t

\* heat_flux.py 52-63 and heat_flux_hf_law0.py 152-174: dispatch on the law;
\* for the exact law the starting profile is the seed or the stored one.
HeatFluxStart ==
    /\ pc = "hf_start"
    /\ IF probes_object.hf_law = 1
       THEN \* Fay-Riddell: closed form, the provider may raise
            \E ok \in BOOLEAN : HeatFluxReturn(hf, ok, FALSE, FALSE, FALSE)
       ELSE LET use_prev == settings_object.use_prev_ite = 1 IN
            IF use_prev /\ (file_marker = NoFile \/
                            (file_marker = <<1>> /\ file_xyz = NoProfile))
            THEN \* numpy.loadtxt raises
                 HeatFluxReturn(hf, FALSE, FALSE, FALSE, FALSE)
            ELSE LET hf_first_comp == IF use_prev THEN file_marker[1] ELSE 0
                 IN
                 \/ \* the edge or wall properties raise
                    HeatFluxReturn(hf, FALSE, FALSE, FALSE, FALSE)
                 \/ /\ pc' = "hf_loop"
                    /\ hf' = [hf EXCEPT
                                !.hf_first_comp = hf_first_comp,
                                !.z = IF hf_first_comp = 0
                                      THEN "seed" ELSE "prev",
                                !.T_e = EdgeTemperature(hf.caller),
                                !.prof =
                                   IF hf_first_comp = 0
                                   THEN reset_vars(EdgeTemperature(hf.caller),
                                                   probes_object.T_w)
                                   ELSE file_xyz.prof]
    /\ UNCHANGED <<call, ModeVars, n_case, OutputVars, CaseVars, T, u, T_t, P_t, P_b,
                   iter, has_converged, exit_due_error, bad_hf, res, cnv,
                   cnv_ref, cnv_old, d_vars, star, relax, dj, FileVars,
                   raised, hist>>

\* heat_flux_hf_law0.py 184-188: the outcomes of properties_across_BL on
\* the profile of reset_vars (TRUE: a temperature is <= 4, NaN or above
\* max_T_relax).  reset_vars depends on T_e and T_w only: an evaluation that
\* started from the seed (hf_first_comp = 0) gets the same profile again,
\* rejected if this is the first pass and accepted if the first pass
\* accepted it.
ResetRedo(h) ==
    IF h.hf_first_comp /= 0 THEN BOOLEAN
    ELSE IF h.z = "seed" THEN {TRUE}
    ELSE {FALSE}

\* x + 1, counted up to 2
UpTo2(x) == IF x < 2 THEN x + 1 ELSE x

\* heat_flux_hf_law0.py 175-258: one pass of the convergence loop; when the
\* loop is left the heat flux is computed, the profile saved and returned.
HeatFluxIterate ==
    /\ pc = "hf_loop"
    /\ IF ~HfLoopGuard(hf.it, settings_object.max_hf_iter)
       THEN \* the while condition ends the loop: stop is False, line 232 was
            \* not reached in the last pass
            /\ HeatFluxReturn(hf, TRUE, FALSE, TRUE, FALSE)
            /\ UNCHANGED <<FileVars, hist>>
       ELSE
       \E redo \in BOOLEAN, reset_redo \in ResetRedo(hf),
          provider_ok \in BOOLEAN :
         LET resetting == redo /\ ~AlreadyReset(hf)
             failed == resetting /\ reset_redo
             prof == IF resetting
                     THEN reset_vars(hf.T_e, probes_object.T_w)
                     ELSE hf.prof
         IN
         \E stop \in StopValues(prof, hf.T_e, probes_object.T_w,
                                 settings_object.hf_conv) :
         LET h == [hf EXCEPT
                     !.prof = prof,
                     !.it = @ + 1,
                     !.violations = IF failed THEN UpTo2(UpTo2(@))
                                    ELSE IF redo THEN UpTo2(@) ELSE @,
                     !.n_resets = IF resetting THEN @ + 1 ELSE @,
                     !.already_reset = @ \/ (resetting /\ ~failed),
                     !.z = IF resetting THEN "seed" ELSE @]
         IN
         /\ hist' = [hist EXCEPT !.resets = IF resetting /\ ~failed
                                            THEN UpTo2(@) ELSE @]
         /\ IF redo /\ AlreadyReset(hf)
            THEN \* 180-181: second violation
                 /\ HeatFluxReturn(h, FALSE, FALSE, FALSE, FALSE)
                 /\ UNCHANGED FileVars
            ELSE IF failed
            THEN \* 187-188: the reset failed
                 /\ HeatFluxReturn(h, FALSE, FALSE, FALSE, FALSE)
                 /\ UNCHANGED FileVars
            ELSE IF ~provider_ok
            THEN \* a provider call or a solver raises
                 /\ HeatFluxReturn(h, FALSE, FALSE, FALSE, FALSE)
                 /\ UNCHANGED FileVars
            ELSE IF HfBreakGuard(stop, h.it, settings_object.max_hf_iter)
            THEN \* 231-258
                 /\ HeatFluxReturn(h, TRUE,
                       BadConvergenceGuard(stop,
                                           settings_object.log_warning_hf),
                       ~stop,
                       SaveGuard(settings_object.use_prev_ite, stop))
                 /\ IF SaveGuard(settings_object.use_prev_ite, stop)
                    THEN /\ file_xyz' = [case |-> n_case, prof |-> prof]
                         /\ file_marker' = IF hf.hf_first_comp = 0 THEN <<1>>
                                           ELSE file_marker
                    ELSE UNCHANGED FileVars
            ELSE \* 238-241: relaxed profile, next pass
                 /\ pc' = "hf_loop"
                 /\ hf' = [h EXCEPT
                             !.z = "relaxed",
                             !.prof = RelaxedProfile(prof, hf.T_e,
                                                     probes_object.T_w)]
                 /\ UNCHANGED FileVars
    /\ UNCHANGED <<call, ModeVars, n_case, OutputVars, CaseVars, T, u, T_t, P_t, P_b,
                   iter, has_converged, exit_due_error, bad_hf, res, cnv,
                   cnv_ref, cnv_old, d_vars, star, relax, dj, raised>>

\* ---------------------------------------------------------------- Next
Next ==
    \/ RetrieveDataInvalid
    \/ RetrieveData
    \/ WriteOutput
    \/ NewtonLoop
    \/ NewtonResiduals
    \/ DynJacResiduals
    \/ ConvergenceCheck
    \/ JacobianU
    \/ JacobianTt
    \/ JacobianPt
    \/ SystemSolve
    \/ UnderRelaxLow
    \/ UnderRelaxHigh
    \/ PostLoop
    \/ HeatFluxStart
    \/ HeatFluxIterate

Spec == Init /\ [][Next]_vars

\* ------------------------------------------ functions called on their own
\* barker_effect, point_in_polygon and load_bounds_csv are functions of
\* their arguments: each is applied once to arguments drawn from the sets
\* below.
MainVars == <<pc, ModeVars, n_case, OutputVars, CaseVars, NewtonVars, FileVars,
              raised, hist>>

\* arguments of barker_effect: Barker type (none, Homann, Carleton), total
\* pressure, 0.5*rho*u^2 and the value of the correction formula
BarkerTypes == {0, 1, 2}
PtArgs == {9000, 10000, 11000}
HeadArgs == {1, 8, 24, 100}
CpArgs == {1, 2, 6}

BarkerCalls ==
    {[fn |-> "barker_effect", probes |-> [barker_type |-> b], P_t |-> p,
      head |-> h, cp |-> c, done |-> FALSE, P_b |-> 0] :
        b \in BarkerTypes, p \in PtArgs, h \in HeadArgs, c \in CpArgs}

\* barker_effect.py 33-70
BarkerEffectCall ==
    /\ call.fn = "barker_effect"
    /\ ~call.done
    /\ call' = [call EXCEPT !.done = TRUE,
                            !.P_b = barker_effect(call.probes, call.P_t,
                                                  call.head, call.cp)]
    /\ UNCHANGED MainVars

\* ------------------------------------------------ utils/facility_bounds
\* Lengths are whole numbers of grid steps, GRID steps to 1.0; the tolerance
\* eps of point_in_polygon is EPS steps.  The arithmetic on the grid is
\* exact.
GRID == 4
EPS == 1

Max(a, b) == IF a > b THEN a ELSE b

\* facility_bounds.py 190-191: abs(a - b) <= eps * max(1.0, abs(a), abs(b));
\* one: the value 1.0 in the unit of a and b
_almost_equal(a, b, one) ==
    Abs(a - b) * GRID <= EPS * Max(one, Max(Abs(a), Abs(b)))

\* facility_bounds.py 194-202
_point_on_segment(p, a, b) ==
    LET x == p[1]   y == p[2]
        x1 == a[1]  y1 == a[2]
        x2 == b[1]  y2 == b[2]
        area2 == (x2 - x1) * (y - y1) - (y2 - y1) * (x - x1)
    IN IF ~_almost_equal(area2, 0, GRID * GRID) THEN FALSE
       ELSE /\ Min(x1, x2) - EPS <= x /\ x <= Max(x1, x2) + EPS
            /\ Min(y1, y2) - EPS <= y /\ y <= Max(y1, y2) + EPS

\* the vertex after vertex i of the polygon: poly[(i + 1) % n]
NextVertex(poly, i) == poly[(i % Len(poly)) + 1]

\* facility_bounds.py 231-247: the ray of the point crosses edge i; tol is
\* the tolerance: eps in the code
RayCrosses(point, poly, i, tol) ==
    LET x == point[1]  y == point[2]
        a == poly[i]
        b == NextVertex(poly, i)
        lo == IF a[2] > b[2] THEN b ELSE a
        hi == IF a[2] > b[2] THEN a ELSE b
        x1 == lo[1]  y1 == lo[2]
        x2 == hi[1]  y2 == hi[2]
    IN IF y < y1 \/ y >= y2 THEN FALSE
       ELSE IF tol > 0 /\ _almost_equal(y1, y2, GRID) THEN FALSE
       ELSE \* xint = x1 + (y - y1)/(y2 - y1) * (x2 - x1) > x + eps
            x1 * (y2 - y1) + (y - y1) * (x2 - x1) > (x + tol) * (y2 - y1)

\* facility_bounds.py 205-249
point_in_polygon(point, poly) ==
    LET x == point[1]  y == point[2]
        n == Len(poly)
        xs == {poly[i][1] : i \in 1..n}
        ys == {poly[i][2] : i \in 1..n}
    IN IF \A px \in xs : x < px - EPS THEN FALSE
       ELSE IF \A px \in xs : x > px + EPS THEN FALSE
       ELSE IF \A py \in ys : y < py - EPS THEN FALSE
       ELSE IF \A py \in ys : y > py + EPS THEN FALSE
       ELSE IF \E i \in 1..n :
                 _point_on_segment(point, poly[i], NextVertex(poly, i))
       THEN TRUE
       ELSE Cardinality({i \in 1..n : RayCrosses(point, poly, i, EPS)}) % 2
              = 1

\* the point lies on an edge or a vertex of the polygon
OnBoundary(point, poly) ==
    \E i \in 1..Len(poly) :
        LET a == poly[i]
            b == NextVertex(poly, i)
        IN /\ (b[1] - a[1]) * (point[2] - a[2])
                = (b[2] - a[2]) * (point[1] - a[1])
           /\ Min(a[1], b[1]) <= point[1] /\ point[1] <= Max(a[1], b[1])
           /\ Min(a[2], b[2]) <= point[2] /\ point[2] <= Max(a[2], b[2])

\* the point lies strictly inside the simple polygon: it is not on the
\* boundary and a ray from it crosses the boundary an odd number of times
StrictlyInside(point, poly) ==
    /\ ~OnBoundary(point, poly)
    /\ Cardinality({i \in 1..Len(poly) : RayCrosses(point, poly, i, 0)}) % 2
         = 1

\* arguments of point_in_polygon: simple polygons (counter-clockwise square
\* of side 2.0, clockwise triangle, concave pentagon) and the points of the
\* grid around them
Polygons ==
    {<<<<0, 0>>, <<8, 0>>, <<8, 8>>, <<0, 8>>>>,
     <<<<0, 0>>, <<4, 8>>, <<8, 0>>>>,
     <<<<0, 0>>, <<8, 0>>, <<8, 8>>, <<4, 4>>, <<0, 8>>>>}
Points == (-2..10) \X (-2..10)

PointInPolygonCalls ==
    {[fn |-> "point_in_polygon", point |-> pt, poly |-> poly,
      done |-> FALSE, result |-> FALSE] : pt \in Points, poly \in Polygons}

\* facility_bounds.py 205-249
PointInPolygonCall ==
    /\ call.fn = "point_in_polygon"
    /\ ~call.done
    /\ call' = [call EXCEPT !.done = TRUE,
                            !.result = point_in_polygon(call.point,
                                                        call.poly)]
    /\ UNCHANGED MainVars

\* facility_bounds.py 45-46
cross(o, a, b) == (a[1] - o[1]) * (b[2] - o[2]) - (a[2] - o[2]) * (b[1] - o[1])

\* facility_bounds.py 41: sorted(set(points)), tuples in lexicographic order
RECURSIVE SortedPoints(_)
SortedPoints(S) ==
    IF S = {} THEN <<>>
    ELSE LET least == CHOOSE a \in S :
                        \A b \in S : a[1] < b[1] \/ (a[1] = b[1] /\ a[2] <= b[2])
         IN <<least>> \o SortedPoints(S \ {least})

\* facility_bounds.py 50-52: the while loop pops, then p is appended
RECURSIVE PushPoint(_, _)
PushPoint(chain, p) ==
    IF Len(chain) >= 2 /\ cross(chain[Len(chain) - 1], chain[Len(chain)], p) <= 0
    THEN PushPoint(SubSeq(chain, 1, Len(chain) - 1), p)
    ELSE Append(chain, p)

\* facility_bounds.py 48-52 and 53-57: one half of the hull, from pts[i] on
RECURSIVE HalfHull(_, _, _)
HalfHull(pts, i, chain) ==
    IF i > Len(pts) THEN chain
    ELSE HalfHull(pts, i + 1, PushPoint(chain, pts[i]))

\* facility_bounds.py 39-58: monotone chain
_convex_hull(points) ==
    LET pts == SortedPoints({points[i] : i \in 1..Len(points)})
        reversed == [i \in 1..Len(pts) |-> pts[Len(pts) + 1 - i]]
        lower == HalfHull(pts, 1, <<>>)
        upper == HalfHull(reversed, 1, <<>>)
    IN IF Len(pts) <= 2 THEN pts
       ELSE SubSeq(lower, 1, Len(lower) - 1) \o SubSeq(upper, 1, Len(upper) - 1)

\* facility_bounds.py 61-71; a unit outside the domain raises ValueError
_to_pa == [Pa |-> 1, kPa |-> 1000]

\* facility_bounds.py 74-84; a unit outside the domain raises ValueError
_to_wm2 == [W_m2 |-> 1, kW_m2 |-> 1000]

\* facility_bounds.py 139-147: the points of the rows of one gas
GasPoints(rows, gas, pressure_unit, heatflux_unit) ==
    LET idx == {i \in 1..Len(rows) : rows[i].gas = gas}
        RECURSIVE Pts(_)
        Pts(i) == IF i > Len(rows) THEN <<>>
                  ELSE IF i \in idx
                  THEN <<<<rows[i].P * _to_pa[pressure_unit],
                           rows[i].q * _to_wm2[heatflux_unit]>>>> \o Pts(i + 1)
                  ELSE Pts(i + 1)
    IN Pts(1)

\* facility_bounds.py 87-186 without polygon_col and vertex_id_col: rows
\* with an empty gas are skipped, each gas gets the hull of its points, a
\* hull of fewer than 3 vertices or an unsupported unit raises ValueError
load_bounds_csv(rows, pressure_unit, heatflux_unit) ==
    LET gases == {rows[i].gas : i \in 1..Len(rows)} \ {""}
    IN IF gases /= {} /\ (pressure_unit \notin DOMAIN _to_pa
                          \/ heatflux_unit \notin DOMAIN _to_wm2)
       THEN [raised |-> TRUE, db |-> <<>>]
       ELSE LET db == [g \in gases |->
                         _convex_hull(GasPoints(rows, g, pressure_unit,
                                                heatflux_unit))]
            IN IF \E g \in gases : Len(db[g]) < 3
               THEN [raised |-> TRUE, db |-> <<>>]
               ELSE [raised |-> FALSE, db |-> db]

\* arguments of load_bounds_csv: the four corners of a square and one more
\* point of the grid; two gases, a row without gas and a repeated row; three
\* points on a line
CsvFiles ==
    LET SquareRows ==
          <<[gas |-> "N2", P |-> 0, q |-> 0], [gas |-> "N2", P |-> 8, q |-> 8],
            [gas |-> "N2", P |-> 8, q |-> 0], [gas |-> "N2", P |-> 0, q |-> 8]>>
    IN {Append(SquareRows, [gas |-> "N2", P |-> pt[1], q |-> pt[2]]) :
           pt \in Points}
       \cup {SquareRows \o <<[gas |-> "", P |-> 20, q |-> 20],
                             [gas |-> "air", P |-> 0, q |-> 0],
                             [gas |-> "air", P |-> 4, q |-> 8],
                             [gas |-> "air", P |-> 4, q |-> 8],
                             [gas |-> "air", P |-> 8, q |-> 0]>>,
             <<[gas |-> "N2", P |-> 0, q |-> 0],
               [gas |-> "N2", P |-> 4, q |-> 4],
               [gas |-> "N2", P |-> 8, q |-> 8]>>}

\* the unit hints: supported ones and one that is not
LoadBoundsCsvCalls ==
    {[fn |-> "load_bounds_csv", rows |-> rows, pressure_unit |-> pu,
      heatflux_unit |-> hu, done |-> FALSE, raised |-> FALSE, db |-> <<>>] :
        rows \in CsvFiles, pu \in {"Pa", "kPa", "psi"},
        hu \in {"W_m2", "kW_m2"}}

\* facility_bounds.py 87-186
LoadBoundsCsvCall ==
    /\ call.fn = "load_bounds_csv"
    /\ ~call.done
    /\ LET r == load_bounds_csv(call.rows, call.pressure_unit,
                                call.heatflux_unit)
       IN call' = [call EXCEPT !.done = TRUE, !.raised = r.raised,
                               !.db = r.db]
    /\ UNCHANGED MainVars

\* --------------------------------------- system_resolution/jacobian_matrix
\* The property providers of a call of jacobian_matrix: functions that are
\* linear in their arguments, with the coefficients co of the call.
enthalpy(co, P_, T_) == co.a * T_ + P_
entropy(co, P_, T_) == co.b * T_ - P_
heat_flux(co, P_t_, T_t_, u_) == co.k1 * u_ + co.k2 * T_t_ + P_t_
\* barker_effect.py 33-70 with 0.5*rho*u^2 = T + 2*u
barker_pressure(co, prb, P_t_, T_, u_) ==
    barker_effect(prb, P_t_, T_ + 2 * u_, co.cp)

\* jacobian_matrix.py 92-111 with the sign of dh_dt lost
jacobian_rows_unsigned(d, u_) ==
    <<<<0, d.dq_du, d.dq_dtt, d.dq_dpt>>,
      <<d.dh_dt, -u_, d.dht_dtt, d.dht_dpt>>,
      <<-d.ds_dt, 0, d.dst_dtt, d.dst_dpt>>,
      <<d.db_dt, d.db_du, 0, d.db_dpt>>>>

\* jacobian_matrix.py 92-111: the matrix from the derivatives d
jacobian_rows(d, u_) ==
    <<<<0, d.dq_du, d.dq_dtt, d.dq_dpt>>,
      <<-d.dh_dt, -u_, d.dht_dtt, d.dht_dpt>>,
      <<-d.ds_dt, 0, d.dst_dtt, d.dst_dpt>>,
      <<d.db_dt, d.db_du, 0, d.db_dpt>>>>

\* jacobian_matrix.py 36-111: forward differences with the step x*jac_diff
\* (jac_diff = 1/jac_diff_inv) from the baseline values b of the caller
jacobian_matrix(co, prb, jac_diff_inv, T_, T_t_, P_, P_t_, u_, b) ==
    LET dT == T_ \div jac_diff_inv
        du == u_ \div jac_diff_inv
        dTt == T_t_ \div jac_diff_inv
        dPt == P_t_ \div jac_diff_inv
        on == prb.barker_type /= 0
    IN jacobian_rows(
         [dh_dt |-> (enthalpy(co, P_, T_ + dT) - b.h) \div dT,
          ds_dt |-> (entropy(co, P_, T_ + dT) - b.s) \div dT,
          db_dt |-> (barker_pressure(co, prb, P_t_, T_ + dT, u_) - b.P_b)
                      \div dT,
          dq_du |-> (heat_flux(co, P_t_, T_t_, u_ + du) - b.q) \div du,
          db_du |-> (barker_pressure(co, prb, P_t_, T_, u_ + du) - b.P_b)
                      \div du,
          dq_dtt |-> (heat_flux(co, P_t_, T_t_ + dTt, u_) - b.q) \div dTt,
          dht_dtt |-> (enthalpy(co, P_t_, T_t_ + dTt) - b.h_t) \div dTt,
          dst_dtt |-> (entropy(co, P_t_, T_t_ + dTt) - b.s_t) \div dTt,
          dq_dpt |-> IF on THEN (heat_flux(co, P_t_ + dPt, T_t_, u_) - b.q)
                                  \div dPt
                     ELSE 0,
          dht_dpt |-> IF on THEN (enthalpy(co, P_t_ + dPt, T_t_) - b.h_t)
                                   \div dPt
                      ELSE 0,
          dst_dpt |-> IF on THEN (entropy(co, P_t_ + dPt, T_t_) - b.s_t)
                                   \div dPt
                      ELSE 0,
          db_dpt |-> IF on THEN (barker_pressure(co, prb, P_t_ + dPt, T_, u_)
                                   - b.P_b) \div dPt
                     ELSE 0],
         u_)

\* main.py 227-242: the baseline values at the state x = <<T, u, T_t, P_t>>
Baseline(co, prb, P_, x) ==
    [q |-> heat_flux(co, x[4], x[3], x[2]),
     h |-> enthalpy(co, P_, x[1]), h_t |-> enthalpy(co, x[4], x[3]),
     s |-> entropy(co, P_, x[1]), s_t |-> entropy(co, x[4], x[3]),
     P_b |-> barker_pressure(co, prb, x[4], x[1], x[2])]

\* main.py 245-250: twice F = -res at the state x (q_target and P_stag are
\* constants of the case)
TwiceF(co, prb, P_, x) ==
    LET b == Baseline(co, prb, P_, x)
    IN <<2 * b.q, 2 * b.h_t - (2 * b.h + x[2] * x[2]), 2 * (b.s_t - b.s),
         2 * b.P_b>>

\* dF_i/dx_j at x by the central difference of step 1, which is exact for
\* these F
DerivativeOfF(co, prb, P_, x, i, j) ==
    (TwiceF(co, prb, P_, [x EXCEPT ![j] = @ + 1])[i]
       - TwiceF(co, prb, P_, [x EXCEPT ![j] = @ - 1])[i]) \div 4

\* arguments of jacobian_matrix: the state, the Barker type and the
\* coefficients of the providers
JacobianCalls ==
    {[fn |-> "jacobian_matrix", x |-> <<t, v, 400, 500>>,
      probes |-> [barker_type |-> bt], co |-> co, done |-> FALSE,
      jac |-> <<>>] :
        t \in {100, 200}, v \in {100, 300}, bt \in BarkerTypes,
        co \in [a : {1, 3}, b : {2}, k1 : {1, 5}, k2 : {2, 7}, cp : {1, 2}]}

\* main.py 285-289 and jacobian_matrix.py 36-111: the matrix of the state x
\* at static pressure 100 and jac_diff = 0.01
JacobianMatrixCall ==
    /\ call.fn = "jacobian_matrix"
    /\ ~call.done
    /\ call' = [call EXCEPT
                  !.done = TRUE,
                  !.jac = jacobian_matrix(call.co, call.probes, 100,
                             call.x[1], call.x[3], 100, call.x[4], call.x[2],
                             Baseline(call.co, call.probes, 100, call.x))]
    /\ UNCHANGED MainVars

\* ------------------------------------- the arrays of heat_flux_hf_law0
\* An array function is modelled by the indices it reads or writes on arrays
\* of length n (counted from 0): an index outside 0..n-1 raises IndexError;
\* otherwise len is the length of the returned array.
MaxNp == 8
ORDER == 4

\* continuity.py 31-50
continuity(n) ==
    LET read == {0, 1, 2, 3, 4}
                  \cup UNION {{i - 2, i - 1, i} : i \in 2..(n - 1)}
    IN IF read \subseteq 0..(n - 1)
       THEN [raised |-> FALSE, len |-> 2 + Cardinality(2..(n - 1))]
       ELSE [raised |-> TRUE, len |-> 0]

\* first_deriv.py 32-70
first_deriv_array(n, order) ==
    LET most == IF n = 3 \/ n = 4 THEN 2 ELSE 4
        ord == IF order < most THEN order ELSE most
        read == IF ord = 2
                THEN {0, 1, 2, n - 1, n - 2, n - 3}
                       \cup UNION {{i + 1, i - 1} : i \in 1..(n - 2)}
                ELSE {0, 1, 2, 3, 4, n - 1, n - 2, n - 3, n - 4, n - 5}
                       \cup UNION {{i - 2, i - 1, i + 1, i + 2} :
                                     i \in 2..(n - 3)}
    IN IF n <= 2 \/ ord \notin {2, 4} \/ ~(read \subseteq 0..(n - 1))
       THEN [raised |-> TRUE, len |-> 0]
       ELSE [raised |-> FALSE, len |-> n]

\* eq_diff_solve.py 46-113: ns = n - 2 unknowns; a, b, d are read at i - 1,
\* i, i + 1 for i in 1..ns, dd is written at 0 and ns - 1
solver_arrays(n) ==
    LET ns == n - 2
        read == UNION {{i - 1, i, i + 1} : i \in 1..ns}
        written == {0, ns - 1}
    IN IF read \subseteq 0..(n - 1) /\ written \subseteq 0..(ns - 1)
       THEN [raised |-> FALSE, len |-> n]
       ELSE [raised |-> TRUE, len |-> 0]

\* arguments: the number of points of the boundary layer, N_p > 1
HeatFluxArraysCalls ==
    {[fn |-> "heat_flux_arrays", N_p |-> n, done |-> FALSE, raised |-> FALSE,
      lens |-> {}] : n \in 2..MaxNp}

\* heat_flux_hf_law0.py 190-221 and 243: one pass over profiles of N_p points
HeatFluxArraysCall ==
    /\ call.fn = "heat_flux_arrays"
    /\ ~call.done
    /\ LET outs == {continuity(call.N_p), first_deriv_array(call.N_p, ORDER),
                    solver_arrays(call.N_p)}
       IN call' = [call EXCEPT !.done = TRUE,
                               !.raised = \E o \in outs : o.raised,
                               !.lens = {o.len : o \in outs}]
    /\ UNCHANGED MainVars

\* ------------------------------------------------------- retrieve_data
\* classes.py 27: conversion factor for pressure (kPa -> Pa)
P_CF == 1000

\* retrieve_helper.py 120-126 and initial_conditions_map.py 233: the initial
\* total pressure of the initial-conditions map, from P and P_dyn of the file
retrieve_ic(P_, P_dyn) == P_ * P_CF + P_dyn * P_CF

\* retrieve_data_filerun.py 93-114 and 174-176 (retrieve_data_xlsx.py 238,
\* 261-302, 362-365 and retrieve_data_srun.py 44-60, 84-87 alike): P_stag
\* and P_t_0 of a case as the reader leaves them; row: the data of the file
retrieve_data_filerun(row) ==
    LET P_stag == row.P + row.P_dyn
        P_t_0 == IF row.ic_db_name /= "" THEN retrieve_ic(row.P, row.P_dyn)
                 ELSE IF row.P_t_0 = 0 THEN P_stag
                 ELSE row.P_t_0
    IN  [P_stag |-> P_stag,
         P_t_0 |-> ConsistentPt0([barker_type |-> row.barker_type],
                                 [P_stag |-> P_stag], P_t_0)]

\* retrieve_helper.py 288-294: the unit conversion of the pressures
retrieve_converted_inputs(o) ==
    [P_stag |-> o.P_stag * P_CF, P_t_0 |-> o.P_t_0 * P_CF]

\* retrieve_data.py 55-81: the reader of the mode, then the unit conversion
retrieve_data(row) == retrieve_converted_inputs(retrieve_data_filerun(row))

\* arguments: pressures of the file in kPa (P_t_0 = 0: not given), the
\* Barker type and the name of the initial-conditions map ("": none)
RetrieveDataCalls ==
    {[fn |-> "retrieve_data",
      row |-> [P |-> p, P_dyn |-> pd, P_t_0 |-> pt0, barker_type |-> b,
               ic_db_name |-> db],
      done |-> FALSE, P_stag |-> 0, P_t_0 |-> 0] :
        p \in {8, 10}, pd \in {1, 2}, pt0 \in {0, 9, 12},
        b \in BarkerTypes, db \in {"", "ic_db"}}

RetrieveDataCall ==
    /\ call.fn = "retrieve_data"
    /\ ~call.done
    /\ call' = [call EXCEPT !.done = TRUE,
                            !.P_stag = retrieve_data(call.row).P_stag,
                            !.P_t_0 = retrieve_data(call.row).P_t_0]
    /\ UNCHANGED MainVars

Calls ==
    BarkerCalls \cup PointInPolygonCalls \cup LoadBoundsCsvCalls
        \cup JacobianCalls \cup HeatFluxArraysCalls \cup RetrieveDataCalls

InitFunctions ==
    /\ call \in Calls
    /\ ProgramStart(<<1, FALSE, 1>>)

NextFunctions ==
    \/ BarkerEffectCall
    \/ PointInPolygonCall
    \/ LoadBoundsCsvCall
    \/ JacobianMatrixCall
    \/ HeatFluxArraysCall
    \/ RetrieveDataCall

SpecFunctions == InitFunctions /\ [][NextFunctions]_vars

\* ----------------------------------------------------------- properties
\* a case is being solved (its data are loaded)
InCase == settings_object /= NoObject

\* the exceptions raised inside the Newton loop that no handler encloses
LoopErrors == {"property provider", "ZeroDivisionError"}

\* the Newton loop of the case has been left
LoopEnded == pc = "post" \/ (pc = "crashed" /\ raised \in LoopErrors)

CONVERGED == has_converged
FAILED == exit_due_error
DIVERGED_MAX_ITER ==
    /\ pc = "post"
    /\ ~has_converged /\ ~exit_due_error
    /\ iter = settings_object.max_newton_iter

\* C1: whenever the Newton loop of a case has ended, exactly one of
\* CONVERGED, DIVERGED_MAX_ITER and FAILED holds; has_converged and
\* exit_due_error are never both set.
C1_ExactlyOneOutcome ==
    /\ ~(has_converged /\ exit_due_error)
    /\ LoopEnded =>
         \/ CONVERGED /\ ~DIVERGED_MAX_ITER /\ ~FAILED
         \/ DIVERGED_MAX_ITER /\ ~CONVERGED /\ ~FAILED
         \/ FAILED /\ ~CONVERGED /\ ~DIVERGED_MAX_ITER

\* C2: the state under_relaxation returns satisfies T >= min_T_relax,
\* T_t >= min_T_relax, T_t >= T_w, u >= 0, P_t >= 0, T <= max_T_relax and
\* T_t <= max_T_relax (star holds the returned values when the loop is
\* re-entered).
C2_ReturnedStateInBounds ==
    (pc = "newton_loop" /\ iter >= 1) =>
        /\ star.T >= settings_object.min_T_relax
        /\ star.T_t >= settings_object.min_T_relax
        /\ star.T_t >= probes_object.T_w
        /\ star.u >= 0
        /\ star.P_t >= 0
        /\ star.T <= settings_object.max_T_relax
        /\ star.T_t <= settings_object.max_T_relax

\* C3: the body of the Newton loop has run at most max_newton_iter times
\* and the loop of a heat-flux evaluation at most max_hf_iter times, resets
\* included.
C3_IterationCaps ==
    InCase => /\ iter <= settings_object.max_newton_iter
              /\ hf.it <= settings_object.max_hf_iter

\* the last Newton iteration allowed, with a heat-flux evaluation that used
\* its last pass and reset the profile on the way
C3_Witness ==
    /\ pc = "main_hf_done"
    /\ iter = settings_object.max_newton_iter /\ iter >= 2
    /\ hf.it = settings_object.max_hf_iter /\ hf.it >= 2
    /\ hf.n_resets = 1
    /\ hf.ok

\* C4: in the xlsx and file runs no error raised inside the Newton loop of
\* a case ends the run.
C4_FailureAbortsOnlyTheCase ==
    program_mode \in {2, 3} => raised \notin LoopErrors

NumericOut == {"rho_out", "T_out", "h_out", "u_out", "a_out", "M_out",
               "T_t_out", "h_t_out", "P_t_out", "Re_out", "Kn_out",
               "res_out"}
ErrorStrings == {ErrorString(0), ErrorString(1)}

C6_RootConvergesAtFirstIteration ==
    (hist.seeded_at_root /\ pc /= "check") =>
        /\ has_converged
        /\ iter = 1
        /\ cnv = <<1, 1>>

C8_CapSetsFlag == hf.capped => (hf.ok /\ hf.bad)

\* C9: a step of a heat-flux evaluation writes the profile or the marker
\* only when it returns from an evaluation that converged, with use_prev_ite
\* set.
C9_SavedOnlyWhenConverged ==
    [][(pc \in {"hf_start", "hf_loop"} /\
        (hf'.saved \/ <<file_marker, file_xyz>>' /= <<file_marker, file_xyz>>))
       => /\ pc' = DoneLabel(hf.caller)
          /\ hf'.ok /\ ~hf'.capped
          /\ settings_object.use_prev_ite = 1]_vars

\* a converged evaluation has just written the profile and the marker
C9_Witness ==
    /\ hf.saved /\ hf.ok
    /\ settings_object.use_prev_ite = 1
    /\ file_marker = <<1>>
    /\ file_xyz.case = n_case

\* C10: the first heat-flux evaluation of a case starts from the seed
\* profile, and an evaluation that starts from the stored profile reads a
\* profile saved by the same case.
C10_WarmStartPerCase ==
    pc = "hf_loop" =>
        /\ (hf.caller = "main" /\ iter = 1) => hf.hf_first_comp = 0
        /\ hf.hf_first_comp /= 0 => file_xyz.case = n_case
        /\ hf.it = 0 => hf.z = IF hf.hf_first_comp = 0 THEN "seed" ELSE "prev"

\* the first evaluation of the second case starts from the seed although
\* the first case left a profile behind
C10_Witness ==
    /\ pc = "hf_loop" /\ hf.caller = "main" /\ iter = 1 /\ hf.it = 0
    /\ settings_object.use_prev_ite = 1
    /\ n_case = 2
    /\ file_xyz.case = 1
    /\ hf.z = "seed"

\* C11: for barker_type = 0 (no correction) barker_effect returns P_b equal
\* to P_t exactly, whatever the total pressure, the dynamic head
\* 0.5*rho*u^2 and the Reynolds number of the call.
C11_NoBarkerReturnsPt ==
    (call.fn = "barker_effect" /\ call.done /\ call.probes.barker_type = 0)
        => call.P_b = call.P_t

\* barker_effect has returned for barker_type = 0 and a large dynamic head
C11_Witness ==
    /\ call.fn = "barker_effect"
    /\ call.done
    /\ call.probes.barker_type = 0
    /\ call.head = 100
    /\ call.P_b = 11000

\* C12: n_eq is fixed for the lifetime of a case and determined by the
\* Barker type alone (3 for none, 4 otherwise), and the linear system solved
\* at every Newton iteration has exactly that size.
C12_NEqFixedBySelector ==
    InCase =>
      /\ hist.n_eq = (IF probes_object.barker_type = 0 THEN 3 ELSE 4)
      /\ pc \in {"relax_low", "relax_high"} => Len(d_vars) = hist.n_eq

\* the system of the second iteration of a case without Barker correction
\* has been solved
C12_Witness ==
    /\ InCase
    /\ pc = "relax_low"
    /\ iter = 2
    /\ probes_object.barker_type = 0
    /\ Len(d_vars) = 3

\* C13: with n_eq = 3 the fourth residual component and the fourth row and
\* column of the Jacobian are never referenced by the convergence metric or
\* the Newton step; with n_eq = 4 the matrix handed to the solver has all
\* four rows populated.
C13_FourthComponentUnused ==
    InCase =>
      /\ hist.n_eq = 3 =>
            /\ hist.cnv_terms <= 3
            /\ pc \in {"relax_low", "relax_high"} => Len(d_vars) <= 3
      /\ (hist.n_eq = 4 /\ pc = "solve") => hist.jac_rows = 4

\* C14: at every pass of every evaluation of the boundary-layer solver, and
\* when the heat flux is computed from it, the profile meets the boundary
\* conditions exactly: F = 0 and g = T_w/T_e at the wall, F = 1 and g = 1 at
\* the edge; this includes the seed, a profile loaded from the files and
\* every relaxed iterate.
C14_BoundaryConditionsExact ==
    (hf.z /= "none" /\ (pc = "hf_loop" \/ hf.ok)) =>
        /\ hf.prof.y0 = 0
        /\ hf.prof.yN = PROFILE_ONE
        /\ hf.prof.z0 = WallRatio(probes_object.T_w, hf.T_e)
        /\ hf.prof.zN = PROFILE_ONE

\* C15: with use_prev_ite off an evaluation of the boundary-layer solver
\* neither reads nor writes state that outlives the call: every step of it
\* leaves the marker file and the stored profile as they are, and it starts
\* from hf_first_comp = 0 and the seed profile of its own arguments, so two
\* calls with the same arguments start, and run, alike.
C15_NoStateOutlivesCall ==
    [][(pc \in {"hf_start", "hf_loop"} /\ settings_object.use_prev_ite = 0) =>
          /\ FileVars' = FileVars
          /\ ~hf'.saved
          /\ (pc = "hf_start" /\ pc' = "hf_loop") =>
                /\ hf'.hf_first_comp = 0
                /\ hf'.prof = reset_vars(EdgeTemperature(hf.caller),
                                         probes_object.T_w)]_vars

\* a second, converged evaluation of the boundary-layer solver in a case
\* with use_prev_ite off
C15_Witness ==
    /\ pc = "main_hf_done"
    /\ settings_object.use_prev_ite = 0
    /\ probes_object.hf_law = 0
    /\ iter >= 2
    /\ hf.ok /\ ~hf.capped
    /\ hf.hf_first_comp = 0

\* C16: without Barker correction the total pressure is locked to P_stag
\* for the whole case: it starts at P_stag, and the Newton update, the
\* under-relaxation and the stabilization step leave it there.
C16_PtLockedToPstag ==
    (InCase /\ probes_object.barker_type = 0) =>
        /\ P_t = inputs_object.P_stag
        /\ star /= NoStar => star.P_t = inputs_object.P_stag
        /\ dj.active => dj.P_t = inputs_object.P_stag

\* a case without Barker correction whose input file gave another P_t_0,
\* in its second Newton iteration after a stabilization step was applied
C16_Witness ==
    /\ InCase
    /\ probes_object.barker_type = 0
    /\ P_t = inputs_object.P_stag
    /\ Pt0Values \cap {inputs_object.P_stag} = {}
    /\ iter >= 2
    /\ pc = "check"
    /\ hist.cnv_terms = JAC_SIZE

\* C17: point_in_polygon returns True for every point strictly inside the
\* simple polygon and for every point on its boundary, and False for every
\* point outside it.
C17_PointInPolygonExact ==
    (call.fn = "point_in_polygon" /\ call.done) =>
        (call.result <=> (OnBoundary(call.point, call.poly)
                          \/ StrictlyInside(call.point, call.poly)))

\* C18: load_bounds_csv without a vertex-order column gives every gas the
\* convex hull of its rows, converted to Pa and W/m^2: the polygon has at
\* least 3 vertices and point_in_polygon is True for every input point of
\* the gas.
C18_HullContainsInputs ==
    (call.fn = "load_bounds_csv" /\ call.done /\ ~call.raised) =>
        \A g \in DOMAIN call.db :
            /\ Len(call.db[g]) >= 3
            /\ LET pts == GasPoints(call.rows, g, call.pressure_unit,
                                    call.heatflux_unit)
               IN \A i \in 1..Len(pts) : point_in_polygon(pts[i], call.db[g])

\* C19: in a case that starts with jac_diff at or below JAC_DIFF_MAX, the
\* stabilization never raises settings.jac_diff above JAC_DIFF_MAX.
C19_JacDiffWithinCeiling ==
    InCase => settings_object.jac_diff <= JAC_DIFF_MAX

\* C20: the state perturbed by a stabilization step has both temperatures
\* inside the relaxation bounds, whatever the signs were.
C20_PerturbedTemperaturesInBounds ==
    dj.active =>
        /\ settings_object.min_T_relax <= dj.T
        /\ dj.T <= settings_object.max_T_relax
        /\ settings_object.min_T_relax <= dj.T_t
        /\ dj.T_t <= settings_object.max_T_relax

\* C21 as stated: an iteration in which stabilization is applied does not
\* also assemble the Jacobian, solve the system and update the state.
C21_StabilizationOrUpdate ==
    (InCase /\ hist.stabilized) =>
        /\ pc \notin {"solve", "relax_low", "relax_high"}
        /\ hf.caller \notin {"jac_u", "jac_Tt", "jac_Pt"}

\* C21: stabilization is applied only at iterations >= 2 where the change of
\* cnv is below the stall threshold and jac_diff is below its ceiling; every
\* iteration that is not converged, stabilized or not, goes on to assemble
\* the Jacobian (or fails doing so).
C21_StabilizationThenUpdate ==
    [][/\ (pc = "main_hf_done" /\ hf'.caller = "dynjac") =>
             /\ iter >= 2
             /\ Stalled(cnv', cnv_old)
             /\ settings_object.jac_diff < JAC_DIFF_MAX
       /\ (pc = "check" /\ iter <= settings_object.max_newton_iter
             /\ ~ConvergedGuard(cnv, settings_object.newton_conv)) =>
             \/ pc' = "hf_start" /\ hf'.caller = "jac_u"
             \/ pc' = "post" /\ exit_due_error']_vars

\* the system of an iteration in which stabilization was applied has been
\* solved
C21_Witness ==
    /\ InCase
    /\ hist.stabilized
    /\ pc = "relax_low"

\* C22: the convergence metric of the main loop and the one recomputed after
\* stabilization are both the 2-norm of the first n_eq residual components
\* divided by cnv_ref; cnv_ref is the unnormalised norm of iteration 1 and
\* does not change afterwards; at iteration 1 the metric is 1.
C22_MetricDefinedOnce ==
    [][/\ (pc = "main_hf_done" /\ pc' = "check" /\ iter = 1) =>
             /\ cnv' = <<1, 1>>
             /\ cnv_ref' = SumSq(res', n_eq(probes_object))
       /\ (pc \in {"main_hf_done", "dynjac_hf_done"} /\ iter >= 2
             /\ pc' \in {"check", "hf_start"}) =>
             cnv' = <<SumSq(res', n_eq(probes_object)), cnv_ref>>
       /\ (InCase /\ iter >= 2 /\ pc /= "post") => cnv_ref' = cnv_ref]_vars

\* the metric has been recomputed after a stabilization step in a case
\* without Barker correction
C22_Witness ==
    /\ InCase
    /\ pc = "check"
    /\ hist.stabilized
    /\ hist.cnv_terms = JAC_SIZE
    /\ n_eq(probes_object) = 3
    /\ cnv = <<SumSq(res, 3), cnv_ref>>

\* C23: the matrix of jacobian_matrix is the derivative of F = -res on the
\* n_eq unknowns, with the fixed entries: no T dependence of the heat-flux
\* row, d(enthalpy)/du = -u, d(entropy)/du = 0, d(Barker)/dT_t = 0.
C23_JacobianIsDerivativeOfF ==
    (call.fn = "jacobian_matrix" /\ call.done) =>
        /\ \A i, j \in 1..n_eq(call.probes) :
              call.jac[i][j] = DerivativeOfF(call.co, call.probes, 100,
                                             call.x, i, j)
        /\ call.jac[1][1] = 0
        /\ call.jac[2][2] = -call.x[2]
        /\ call.jac[3][2] = 0
        /\ call.jac[4][3] = 0

\* a matrix returned for a case with Barker correction, all four columns
\* made of finite differences
C23_Witness ==
    /\ call.fn = "jacobian_matrix"
    /\ call.done
    /\ call.probes.barker_type /= 0
    /\ call.jac[2][1] = -call.co.a
    /\ call.jac[2][3] = call.co.a
    /\ call.jac[4][4] = 1

\* C24: for every number of points N_p > 1 continuity, first_deriv_array
\* and solver accept profiles of length N_p without an out-of-range access
\* or a size error, and return arrays of length N_p.
C24_ArraysOfAnyLength ==
    (call.fn = "heat_flux_arrays" /\ call.done) =>
        /\ ~call.raised
        /\ call.lens = {call.N_p}

\* C25: while the Jacobian of an iteration is assembled, the baseline values
\* q, h, h_t, s, s_t and P_b handed to jacobian_matrix are those of the
\* current state, also after stabilization has moved the state.
C25_BaselineAtCurrentState ==
    (InCase /\ hf.caller \in {"jac_u", "jac_Tt", "jac_Pt"}) =>
        /\ hist.base_at = <<T, u, T_t, P_t>>
        /\ hist.q_at = <<P_t, T_t, u>>

\* C26: when the Newton loop of a case has ended without error, the state
\* (T, u, T_t, P_t) that is reported is the state at which the last residual
\* (and the Reynolds number) was evaluated: nothing moved it afterwards.
C26_OutputAtFinalState ==
    (pc = "post" /\ ~exit_due_error /\ iter >= 1) =>
        hist.base_at = <<T, u, T_t, P_t>>

\* C27: in a case whose initial conditions satisfy the bounds (the settings
\* of every case are consistent), the state at the start of every Newton
\* update satisfies the bounds under_relaxation enforces, so that its
\* halving loops end; this includes the updates after a stabilization.
C27_UpdateStartsInBounds ==
    (pc \in {"relax_low", "relax_high"} /\ hist.ic_in_bounds) =>
        LET cur == [T |-> T, u |-> u, T_t |-> T_t, P_t |-> P_t]
        IN  /\ ~TooLow(cur, settings_object, probes_object)
            /\ ~TooHigh(cur, settings_object)

\* C28: when the heat flux of the stabilization step raises, the step is
\* cancelled as a whole: the Newton loop continues with the state, the
\* residual, cnv and settings.jac_diff that dynamic_jacobian_diff was
\* called with.
C28_CancelledAsAWhole ==
    [][(pc = "dynjac_hf_done" /\ ~hf.ok) =>
          /\ pc' = "check"
          /\ <<T, u, T_t, P_t, res, cnv>>' = <<T, u, T_t, P_t, res, cnv>>
          /\ settings_object'.jac_diff = hist.jac_diff_at_call]_vars

\* C29: a case that is about to be reported as converged ("yes") has a last
\* residual whose heat-flux evaluation converged within max_hf_iter.
C29_ConvergedOnConvergedHeatFlux ==
    (pc = "post" /\ ~exit_due_error /\ has_converged /\ ~bad_hf) =>
        ~hist.res_capped

\* C30: the initial total pressure of a case whose initial conditions come
\* from the initial-conditions map is P + P_dyn in Pa, converted from the
\* kPa of the file exactly once, for every Barker type: the value it has
\* when it is defaulted from the input file.
C30_Pt0InPaOnce ==
    (call.fn = "retrieve_data" /\ call.done /\ call.row.ic_db_name /= "") =>
        /\ call.P_t_0 = (call.row.P + call.row.P_dyn) * P_CF
        /\ call.P_t_0 = retrieve_data([call.row EXCEPT !.ic_db_name = "",
                                                       !.P_t_0 = 0]).P_t_0

====
